---- MODULE Spec2Model ----
(***************************************************************************)
(* State-machine model of the movie API of src/server.js: the signup and   *)
(* signin handlers, the five movie routes behind the JWT middleware, and   *)
(* the Mongoose schema of src/Movies.js.  The document store is a pair of  *)
(* collections (users, movies) kept in insertion order, which is the order *)
(* findOne / findOneAndUpdate / deleteOne match in.  Time is counted in    *)
(* minutes.  The routes modelled are those of server.js, the file that     *)
(* starts the listener; the second router that follows the schema in       *)
(* Movies.js does not parse (line 110) and is never mounted.  The store is *)
(* taken to be available: no handler reaches its 500 branch through a      *)
(* storage failure, only through a validation error of save().  Request    *)
(* bodies carry values of the schema's types.                              *)
(***************************************************************************)
EXTENDS Integers, Sequences, FiniteSets

VARIABLES users, movies, issued, now, last, prev

vars == <<users, movies, issued, now, last, prev>>

(***************************************************************************)
(* Optional JSON fields: None is an absent (undefined) field, Some(v) a    *)
(* supplied one.                                                           *)
(***************************************************************************)
None == <<>>

Some(v) == <<v>>

Has(o) == o # None

Val(o) == o[1]

\* JavaScript truthiness of an optional number: undefined and 0 are falsy.
TruthyNum(o) == Has(o) /\ Val(o) # 0

\* JavaScript truthiness of an optional string: undefined and "" are falsy.
TruthyStr(o) == Has(o) /\ Val(o) # ""

\* JavaScript truthiness of an optional array: every array, [] included, is truthy.
TruthyArr(o) == Has(o)

(***************************************************************************)
(* Bounds of the model.                                                    *)
(***************************************************************************)
MaxMovies == 2

MaxUsers == 2

MaxTokens == 2

(***************************************************************************)
(* Program constants.                                                      *)
(***************************************************************************)
MinYear == 1900

MaxYear == 2100

MinActors == 3

\* jwt.sign(..., { expiresIn: "1h" }), in minutes.
ExpiresIn == 60

validGenres ==
    {"Action", "Adventure", "Comedy", "Drama", "Fantasy", "Horror",
     "Mystery", "Thriller", "Western", "Science Fiction"}

\* The enum of MovieSchema.genre.
schemaGenres ==
    {"Action", "Adventure", "Comedy", "Drama", "Fantasy", "Horror",
     "Mystery", "Thriller", "Western", "Science Fiction"}

(***************************************************************************)
(* Movie documents and the Mongoose operations the handlers call.          *)
(***************************************************************************)
\* An actors array of length k.
Cast(k) == [i \in 1..k |-> [actorName |-> i, characterName |-> i]]

\* Mutant of NewMovie: the schema lacks the genre path, so the cast drops it.
NewMovieWithoutGenre(body) ==
    [title |-> body.title,
     releaseDate |-> body.releaseDate,
     genre |-> None,
     actors |-> IF Has(body.actors) THEN Val(body.actors) ELSE <<>>]

\* new Movie(req.body): the schema's paths are copied, actors defaults to [].
NewMovie(body) ==
    [title |-> body.title,
     releaseDate |-> body.releaseDate,
     genre |-> body.genre,
     actors |-> IF Has(body.actors) THEN Val(body.actors) ELSE <<>>]

\* The validators movie.save() runs: title required (non-empty), releaseDate
\* within min/max when set, genre in the enum when set.
SchemaValid(doc) ==
    /\ Has(doc.title) /\ Val(doc.title) # ""
    /\ Has(doc.releaseDate) =>
          (Val(doc.releaseDate) >= MinYear /\ Val(doc.releaseDate) <= MaxYear)
    /\ Has(doc.genre) => Val(doc.genre) \in schemaGenres

\* Index of the first document whose title matches, 0 when there is none.
FindOne(ms, title) ==
    IF \E i \in 1..Len(ms) : ms[i].title = Some(title)
    THEN CHOOSE i \in 1..Len(ms) :
            /\ ms[i].title = Some(title)
            /\ \A j \in 1..(i - 1) : ms[j].title # Some(title)
    ELSE 0

\* Mutant of ApplyUpdate: the update document replaces the stored one.
ApplyOverwrite(doc, upd) ==
    [title |-> IF Has(upd.title) THEN upd.title ELSE doc.title,
     releaseDate |-> upd.releaseDate,
     genre |-> upd.genre,
     actors |-> IF Has(upd.actors) THEN Val(upd.actors) ELSE <<>>]

\* The $set of an update document: supplied paths replace, the others stay.
ApplyUpdate(doc, upd) ==
    [title |-> IF Has(upd.title) THEN upd.title ELSE doc.title,
     releaseDate |-> IF Has(upd.releaseDate) THEN upd.releaseDate ELSE doc.releaseDate,
     genre |-> IF Has(upd.genre) THEN upd.genre ELSE doc.genre,
     actors |-> IF Has(upd.actors) THEN Val(upd.actors) ELSE doc.actors]

\* Movie.findOneAndUpdate({ title }, updateData, { new: true }): no validators run.
FindOneAndUpdate(ms, title, upd) ==
    LET i == FindOne(ms, title)
    IN IF i = 0 THEN ms ELSE [ms EXCEPT ![i] = ApplyUpdate(ms[i], upd)]

\* Mutant of DeleteOne: splice(indexOf(...), 1), which drops the last
\* document when nothing matches.
DeleteOneSplice(ms, title) ==
    LET i == IF FindOne(ms, title) = 0 THEN Len(ms) ELSE FindOne(ms, title)
    IN IF i = 0 THEN ms
       ELSE [j \in 1..(Len(ms) - 1) |-> IF j < i THEN ms[j] ELSE ms[j + 1]]

\* Movie.deleteOne({ title }): removes the first match only.
DeleteOne(ms, title) ==
    LET i == FindOne(ms, title)
    IN IF i = 0 THEN ms
       ELSE [j \in 1..(Len(ms) - 1) |-> IF j < i THEN ms[j] ELSE ms[j + 1]]

(***************************************************************************)
(* Users and tokens.                                                       *)
(***************************************************************************)
\* The password hash kept in place of the plaintext.
Hash(p) == <<"hash", p>>

comparePassword(user, candidate) == user.password = Hash(candidate)

\* Index of the user with this username, 0 when there is none.
FindUser(us, username) ==
    IF \E i \in 1..Len(us) : us[i].username = username
    THEN CHOOSE i \in 1..Len(us) : us[i].username = username
    ELSE 0

\* user.save() fails with code 11000 when the username is taken.
DuplicateKey(us, username) == FindUser(us, username) # 0

\* Mutant of Sign: expiresIn: 60, which jsonwebtoken reads as 60 seconds.
SignSixtySeconds(id, username, t) ==
    [id |-> id, username |-> username, exp |-> t + 1, sig |-> "ok"]

\* jwt.sign(userToken, SECRET_KEY, { expiresIn: "1h" }) at time t.
Sign(id, username, t) ==
    [id |-> id, username |-> username, exp |-> t + ExpiresIn, sig |-> "ok"]

\* Token verification: signature and expiry (a token is expired from the
\* minute of its exp on).
Verify(tok, t) == tok.sig = "ok" /\ t < tok.exp

\* authJwtController.isAuthenticated: the bearer token is present and verifies.
isAuthenticated(tok) == Has(tok) /\ Verify(Val(tok), now)


(***************************************************************************)
(* The handlers, as functions of the collection and the request: each      *)
(* yields the response status, the response payload and the collection     *)
(* the request leaves behind.                                              *)
(***************************************************************************)
Reply(status, out, coll) == [status |-> status, out |-> out, coll |-> coll]

\* Mutant of signup: the duplicate-key error is not told apart (500).
signupConflictUnhandled(us, body) ==
    IF ~TruthyStr(body.username) \/ ~TruthyStr(body.password)
    THEN Reply(400, None, us)
    ELSE IF DuplicateKey(us, Val(body.username))
    THEN Reply(500, None, us)
    ELSE Reply(201, None,
               Append(us, [name |-> body.name,
                           username |-> Val(body.username),
                           password |-> Hash(Val(body.password))]))

\* POST /signup
signup(us, body) ==
    IF ~TruthyStr(body.username) \/ ~TruthyStr(body.password)
    THEN Reply(400, None, us)
    ELSE IF DuplicateKey(us, Val(body.username))
    THEN Reply(409, None, us)
    ELSE Reply(201, None,
               Append(us, [name |-> body.name,
                           username |-> Val(body.username),
                           password |-> Hash(Val(body.password))]))

\* POST /signin
signin(us, body, t) ==
    LET i == FindUser(us, Val(body.username))
    IN IF i = 0
       THEN Reply(401, None, us)
       ELSE IF comparePassword(us[i], Val(body.password))
       THEN Reply(200, Some(Sign(i, us[i].username, t)), us)
       ELSE Reply(401, None, us)

\* GET /movies
getMovies(ms) == Reply(200, Some(ms), ms)

\* POST /movies: a validation error of save() is caught and answered 500.
postMovies(ms, body) ==
    LET movie == NewMovie(body)
    IN IF SchemaValid(movie)
       THEN Reply(201, Some(movie), Append(ms, movie))
       ELSE Reply(500, None, ms)

\* Mutant of putChecks: the actors check is off by one (<= 3).
putChecksOffByOne(updateData) ==
    IF ~TruthyNum(updateData.releaseDate) /\ ~TruthyStr(updateData.genre)
          /\ ~TruthyArr(updateData.actors)
    THEN "nofield"
    ELSE IF TruthyNum(updateData.releaseDate)
              /\ (Val(updateData.releaseDate) < MinYear
                    \/ Val(updateData.releaseDate) > MaxYear)
    THEN "year"
    ELSE IF TruthyStr(updateData.genre) /\ Val(updateData.genre) \notin validGenres
    THEN "genre"
    ELSE IF TruthyArr(updateData.actors) /\ Len(Val(updateData.actors)) <= MinActors
    THEN "actors"
    ELSE "ok"

\* The checks of the PUT handler before it touches the store: the name of
\* the first check that rejects, or "ok".
putChecks(updateData) ==
    IF ~TruthyNum(updateData.releaseDate) /\ ~TruthyStr(updateData.genre)
          /\ ~TruthyArr(updateData.actors)
    THEN "nofield"
    ELSE IF TruthyNum(updateData.releaseDate)
              /\ (Val(updateData.releaseDate) < MinYear
                    \/ Val(updateData.releaseDate) > MaxYear)
    THEN "year"
    ELSE IF TruthyStr(updateData.genre) /\ Val(updateData.genre) \notin validGenres
    THEN "genre"
    ELSE IF TruthyArr(updateData.actors) /\ Len(Val(updateData.actors)) < MinActors
    THEN "actors"
    ELSE "ok"

\* PUT /movies/:title
putMovie(ms, title, updateData) ==
    IF putChecks(updateData) # "ok"
    THEN Reply(400, Some(putChecks(updateData)), ms)
    ELSE IF FindOne(ms, title) = 0
    THEN Reply(404, None, ms)
    ELSE LET updated == FindOneAndUpdate(ms, title, updateData)
         IN Reply(200, Some(updated[FindOne(ms, title)]), updated)

\* GET /movies/:title
getMovie(ms, title) ==
    IF FindOne(ms, title) = 0
    THEN Reply(404, None, ms)
    ELSE Reply(200, Some(ms[FindOne(ms, title)]), ms)

\* DELETE /movies/:title: the result of deleteOne is returned as it is.
deleteMovie(ms, title) ==
    Reply(200, Some([deletedCount |-> IF FindOne(ms, title) = 0 THEN 0 ELSE 1]),
          DeleteOne(ms, title))

\* The middleware's rejection: the handler is not invoked.
Unauthorized(ms) == Reply(401, None, ms)

(***************************************************************************)
(* The routes: every movie route passes through isAuthenticated first.     *)
(***************************************************************************)
RouteGetMovies(tok) ==
    IF isAuthenticated(tok) THEN getMovies(movies) ELSE Unauthorized(movies)

\* Mutant of RoutePostMovies: the route is registered without the middleware.
RoutePostMoviesOpen(tok, body) == postMovies(movies, body)

RoutePostMovies(tok, body) ==
    IF isAuthenticated(tok) THEN postMovies(movies, body) ELSE Unauthorized(movies)

RoutePutMovie(tok, title, body) ==
    IF isAuthenticated(tok) THEN putMovie(movies, title, body) ELSE Unauthorized(movies)

RouteGetMovie(tok, title) ==
    IF isAuthenticated(tok) THEN getMovie(movies, title) ELSE Unauthorized(movies)

RouteDeleteMovie(tok, title) ==
    IF isAuthenticated(tok) THEN deleteMovie(movies, title) ELSE Unauthorized(movies)

(***************************************************************************)
(* The exchange most recently completed (last) and, when the exchange     *)
(* before it was a create or a delete of a movie, that exchange (prev).    *)
(***************************************************************************)
Exchange(op, tok, title, body, status, out) ==
    [op |-> op, tok |-> tok, title |-> title, body |-> body,
     status |-> status, out |-> out]

NoExchange == Exchange("none", None, None, None, 0, None)

Remember(ex) == IF ex.op \in {"postMovies", "deleteMovie"} THEN ex ELSE NoExchange

Init ==
    /\ users = <<>>
    /\ movies = <<>>
    /\ issued = {}
    /\ now = 0
    /\ last = NoExchange
    /\ prev = NoExchange


(***************************************************************************)
(* One action per request, and the passage of time.                        *)
(***************************************************************************)
Signup(body) ==
    LET r == signup(users, body)
    IN /\ Len(r.coll) <= MaxUsers
       /\ users' = r.coll
       /\ last' = Exchange("signup", None, None, Some(body), r.status, r.out)
       /\ prev' = Remember(last)
       /\ UNCHANGED <<movies, issued, now>>

Signin(body) ==
    LET r == signin(users, body, now)
    IN /\ Has(r.out) => Cardinality(issued \cup {Val(r.out)}) <= MaxTokens
       /\ issued' = IF Has(r.out) THEN issued \cup {Val(r.out)} ELSE issued
       /\ last' = Exchange("signin", None, None, Some(body), r.status, r.out)
       /\ prev' = Remember(last)
       /\ UNCHANGED <<users, movies, now>>

MovieStep(op, tok, title, body, r) ==
    /\ Len(r.coll) <= MaxMovies
    /\ movies' = r.coll
    /\ last' = Exchange(op, tok, title, body, r.status, r.out)
    /\ prev' = Remember(last)
    /\ UNCHANGED <<users, issued, now>>

GetMovies(tok) == MovieStep("getMovies", tok, None, None, RouteGetMovies(tok))

PostMovies(tok, body) ==
    MovieStep("postMovies", tok, None, Some(body), RoutePostMovies(tok, body))

PutMovie(tok, title, body) ==
    MovieStep("putMovie", tok, Some(title), Some(body), RoutePutMovie(tok, title, body))

GetMovie(tok, title) ==
    MovieStep("getMovie", tok, Some(title), None, RouteGetMovie(tok, title))

DeleteMovie(tok, title) ==
    MovieStep("deleteMovie", tok, Some(title), None, RouteDeleteMovie(tok, title))

\* Time passes to a later instant of T.
Tick(T) ==
    /\ \E t \in T : t > now /\ now' = t
    /\ last' = NoExchange
    /\ prev' = NoExchange
    /\ UNCHANGED <<users, movies, issued>>

(***************************************************************************)
(* The requests the environment sends.                                     *)
(***************************************************************************)
\* A token whose signature does not verify.
Forged == [id |-> 1, username |-> "a", exp |-> 100000, sig |-> "forged"]

\* No header, a forged token, or a token a signin has issued.
Bearers == {None, Some(Forged)} \cup {Some(t) : t \in issued}

Opt(S) == {None} \cup {Some(v) : v \in S}

UserBody(name, username, password) ==
    [name |-> name, username |-> username, password |-> password]

MovieBody(title, releaseDate, genre, actors) ==
    [title |-> title, releaseDate |-> releaseDate, genre |-> genre, actors |-> actors]

\* A complete, valid create payload.
BaseBody(t) == MovieBody(Some(t), Some(1900), Some("Drama"), Some(Cast(3)))

(***************************************************************************)
(* The whole program from construction, on a small set of requests.        *)
(***************************************************************************)
SignupBodies == {UserBody(None, u, p) : u \in Opt({"a"}), p \in Opt({"p"})}

SigninBodies == {UserBody(None, Some("a"), Some(p)) : p \in {"p", "x"}}

Instants == {61}

Titles == {"Inception", "Unknown"}

PostBodies ==
    {BaseBody("Inception"),
     [BaseBody("Inception") EXCEPT !.releaseDate = Some(1899)]}

PutBodies ==
    {MovieBody(None, None, g, None) : g \in Opt({"Comedy", "Not-A-Genre"})}

Next ==
    \/ \E b \in SignupBodies : Signup(b)
    \/ \E b \in SigninBodies : Signin(b)
    \/ Tick(Instants)
    \/ \E tok \in Bearers : GetMovies(tok)
    \/ \E tok \in Bearers, b \in PostBodies : PostMovies(tok, b)
    \/ \E tok \in Bearers, t \in Titles, b \in PutBodies : PutMovie(tok, t, b)
    \/ \E tok \in Bearers, t \in Titles : GetMovie(tok, t)
    \/ \E tok \in Bearers, t \in Titles : DeleteMovie(tok, t)

Spec == Init /\ [][Next]_vars

(***************************************************************************)
(* Accounts and tokens: signup and signin over two usernames and two       *)
(* passwords, the clock around the expiry of a token, and a protected      *)
(* route that shows whether the middleware accepts a token.                *)
(***************************************************************************)
AccountSignupBodies ==
    {UserBody(None, u, p) : u \in Opt({"", "a", "b"}), p \in Opt({"", "p", "q"})}

AccountSigninBodies ==
    {UserBody(None, Some(u), Some(p)) : u \in {"a", "b"}, p \in {"p", "q"}}

AccountInstants == {1, 59, 60, 61}

NextAccounts ==
    \/ \E b \in AccountSignupBodies : Signup(b)
    \/ \E b \in AccountSigninBodies : Signin(b)
    \/ Tick(AccountInstants)
    \/ \E tok \in Bearers : GetMovies(tok)

SpecAccounts == Init /\ [][NextAccounts]_vars

(***************************************************************************)
(* The movie collection: a signed-in client (user "a", token issued at     *)
(* time 0) sends movie requests to an empty collection.                    *)
(***************************************************************************)
SignedIn ==
    /\ users = <<[name |-> None, username |-> "a", password |-> Hash("p")]>>
    /\ issued = {Sign(1, "a", 0)}
    /\ now = 0
    /\ last = NoExchange
    /\ prev = NoExchange

InitStore == SignedIn /\ movies = <<>>

StoreTitles == {"Inception", "Heat"}

StorePostBodies ==
    {BaseBody("Inception"), BaseBody("Heat"),
     MovieBody(Some("Inception"), None, Some("Comedy"), None)}

StorePutBodies ==
    {MovieBody(None, y, g, None) : y \in Opt({2100}), g \in Opt({"Comedy"})}

NextStore ==
    \/ \E tok \in Bearers : GetMovies(tok)
    \/ \E tok \in Bearers, b \in StorePostBodies : PostMovies(tok, b)
    \/ \E tok \in Bearers, t \in StoreTitles, b \in StorePutBodies : PutMovie(tok, t, b)
    \/ \E tok \in Bearers, t \in StoreTitles : GetMovie(tok, t)
    \/ \E tok \in Bearers, t \in StoreTitles : DeleteMovie(tok, t)

SpecStore == InitStore /\ [][NextStore]_vars

(***************************************************************************)
(* Updates: the signed-in client sends PUT requests, over every            *)
(* combination of the field values below, to a collection holding one      *)
(* movie ("Inception", 1900, "Drama", four actors).                        *)
(***************************************************************************)
InitUpdate ==
    /\ SignedIn
    /\ movies = <<NewMovie(MovieBody(Some("Inception"), Some(1900), Some("Drama"),
                                     Some(Cast(4))))>>

UpdateYears == {-1, 0, 1899, 1900, 2100, 2101}

UpdateGenres == {"", "drama", "Not-A-Genre", "Science Fiction"}

UpdateCasts == {Cast(0), Cast(2), Cast(3)}

UpdateBodies ==
    {MovieBody(None, y, g, a) :
        y \in Opt(UpdateYears), g \in Opt(UpdateGenres), a \in Opt(UpdateCasts)}

NextUpdate ==
    \/ \E tok \in Bearers, t \in Titles, b \in UpdateBodies : PutMovie(tok, t, b)
    \/ \E tok \in Bearers, t \in Titles : GetMovie(tok, t)

SpecUpdate == InitUpdate /\ [][NextUpdate]_vars

(***************************************************************************)
(* Vocabulary of the properties.                                           *)
(***************************************************************************)
MovieOps == {"getMovies", "postMovies", "putMovie", "getMovie", "deleteMovie"}

\* The bearer token of a request verifies at time t.
Verified(tok, t) == Has(tok) /\ Verify(Val(tok), t)

\* Some stored movie has this title.
Stored(ms, title) == \E i \in 1..Len(ms) : ms[i].title = Some(title)

\* ms without its i-th element.
Without(ms, i) == [j \in 1..(Len(ms) - 1) |-> IF j < i THEN ms[j] ELSE ms[j + 1]]

\* A stored document equals a payload on every field the payload supplies.
EqualOnSupplied(doc, m) ==
    /\ Has(m.title) => doc.title = m.title
    /\ Has(m.releaseDate) => doc.releaseDate = m.releaseDate
    /\ Has(m.genre) => doc.genre = m.genre
    /\ Has(m.actors) => doc.actors = Val(m.actors)

\* A stored document equals another on every field the payload leaves out.
EqualOnUnsupplied(doc, old, m) ==
    /\ ~Has(m.title) => doc.title = old.title
    /\ ~Has(m.releaseDate) => doc.releaseDate = old.releaseDate
    /\ ~Has(m.genre) => doc.genre = old.genre
    /\ ~Has(m.actors) => doc.actors = old.actors

InRange(y) == 1900 <= y /\ y <= 2100

TenGenres ==
    {"Action", "Adventure", "Comedy", "Drama", "Fantasy", "Horror",
     "Mystery", "Thriller", "Western", "Science Fiction"}

(***************************************************************************)
(* C1: a request to a movie endpoint without a bearer token, or with one   *)
(* that does not verify (forged or expired), is answered 401 with no       *)
(* payload and leaves the movie collection as it was.                      *)
(***************************************************************************)
C1_UnverifiedIsRejected ==
    [][(last'.op \in MovieOps /\ ~Verified(last'.tok, now'))
          => (last'.status = 401 /\ last'.out = None /\ movies' = movies)]_vars

\* POST /movies without a header was answered 401 while movies were stored.
C1_Witness ==
    /\ last.op = "postMovies" /\ last.tok = None /\ last.status = 401
    /\ movies # <<>>
    /\ now > 0

(***************************************************************************)
(* C2 (as claimed): an authenticated PUT on an existing title carrying     *)
(* releaseDate = y and otherwise valid fields is answered 200 and          *)
(* persisted when 1900 <= y <= 2100, and answered 400 with the collection  *)
(* unchanged otherwise; no stored releaseDate lies outside [1900, 2100].   *)
(***************************************************************************)
C2_ReleaseDateRange ==
    [][(/\ last'.op = "putMovie" /\ Verified(last'.tok, now')
        /\ Stored(movies, Val(last'.title))
        /\ Has(Val(last'.body).releaseDate)
        /\ Has(Val(last'.body).genre) => Val(Val(last'.body).genre) \in TenGenres
        /\ Has(Val(last'.body).actors) => Len(Val(Val(last'.body).actors)) >= 3)
          => /\ IF InRange(Val(Val(last'.body).releaseDate))
                THEN /\ last'.status = 200
                     /\ \E i \in 1..Len(movies') :
                           movies'[i].releaseDate = Val(last'.body).releaseDate
                ELSE last'.status = 400 /\ movies' = movies
             /\ \A i \in 1..Len(movies') :
                   Has(movies'[i].releaseDate) => InRange(Val(movies'[i].releaseDate))]_vars

(***************************************************************************)
(* C3 (as claimed): an authenticated PUT carrying a genre that is not one  *)
(* of the ten enumerated genres is answered 400 and leaves the collection  *)
(* unchanged, whether or not the title exists.                             *)
(***************************************************************************)
C3_GenreEnumeration ==
    [][(/\ last'.op = "putMovie" /\ Verified(last'.tok, now')
        /\ Has(Val(last'.body).genre)
        /\ Val(Val(last'.body).genre) \notin TenGenres)
          => (last'.status = 400 /\ movies' = movies)]_vars

(***************************************************************************)
(* C4: an authenticated PUT on an existing title carrying an actors array  *)
(* of length k and otherwise valid fields is answered 200 and the first    *)
(* movie with that title then holds that array when k >= 3; when k < 3 it  *)
(* is answered 400 and the collection is unchanged.                        *)
(***************************************************************************)
C4_ActorsAtLeastThree ==
    [][(/\ last'.op = "putMovie" /\ Verified(last'.tok, now')
        /\ Stored(movies, Val(last'.title))
        /\ Has(Val(last'.body).actors)
        /\ Has(Val(last'.body).releaseDate) => InRange(Val(Val(last'.body).releaseDate))
        /\ Has(Val(last'.body).genre) => Val(Val(last'.body).genre) \in TenGenres)
          => IF Len(Val(Val(last'.body).actors)) >= 3
             THEN /\ last'.status = 200
                  /\ \E i \in 1..Len(movies) :
                        /\ movies[i].title = last'.title
                        /\ \A j \in 1..(i - 1) : movies[j].title # last'.title
                        /\ movies'[i].actors = Val(Val(last'.body).actors)
             ELSE last'.status = 400 /\ movies' = movies]_vars

\* An update to three actors was accepted and is stored; the movie had four.
C4_Witness ==
    /\ last.op = "putMovie" /\ last.status = 200
    /\ Val(last.body).actors = Some(Cast(3))
    /\ movies[1].actors = Cast(3)

(***************************************************************************)
(* C5 (as claimed): an authenticated POST /movies whose payload breaks a   *)
(* create rule (title missing or empty, releaseDate missing or outside     *)
(* [1900, 2100], genre not enumerated, actors missing) is answered 400     *)
(* and creates nothing; a payload meeting the rules is answered 201 and    *)
(* creates exactly one record.                                             *)
(***************************************************************************)
CreateRulesMet(m) ==
    /\ Has(m.title) /\ Val(m.title) # ""
    /\ Has(m.releaseDate) /\ InRange(Val(m.releaseDate))
    /\ Has(m.genre) /\ Val(m.genre) \in TenGenres
    /\ Has(m.actors)

C5_InvalidCreateIs400 ==
    [][(last'.op = "postMovies" /\ Verified(last'.tok, now'))
          => IF CreateRulesMet(Val(last'.body))
             THEN last'.status = 201 /\ Len(movies') = Len(movies) + 1
             ELSE last'.status = 400 /\ movies' = movies]_vars

(***************************************************************************)
(* C6 (as claimed): a successful POST /movies of m followed immediately by *)
(* an authenticated GET /movies/:title with m's title is answered 200 with *)
(* a record equal to m on every supplied field, whatever was stored before.*)
(***************************************************************************)
PostThenGet ==
    /\ prev.op = "postMovies" /\ prev.status = 201
    /\ last.op = "getMovie" /\ Verified(last.tok, now)
    /\ last.title = Val(prev.body).title

C6_RoundTripAlways ==
    PostThenGet => (last.status = 200 /\ EqualOnSupplied(Val(last.out), Val(prev.body)))

(***************************************************************************)
(* C6 (amended): the round trip holds when no movie with m's title was     *)
(* stored before the POST; in every case the GET returns the earliest      *)
(* stored movie with that title.                                           *)
(***************************************************************************)
NoEarlierSameTitle ==
    \A i \in 1..(Len(movies) - 1) : movies[i].title # last.title

C6_RoundTripFirstMatch ==
    PostThenGet =>
        /\ last.status = 200
        /\ NoEarlierSameTitle => EqualOnSupplied(Val(last.out), Val(prev.body))
        /\ \E i \in 1..Len(movies) :
              /\ movies[i].title = last.title
              /\ \A j \in 1..(i - 1) : movies[j].title # last.title
              /\ last.out = Some(movies[i])

\* A movie that leaves fields out was created beside another and read back.
C6_Witness ==
    /\ PostThenGet /\ NoEarlierSameTitle
    /\ Len(movies) = 2
    /\ ~Has(Val(prev.body).releaseDate)
    /\ last.status = 200

(***************************************************************************)
(* C7 (as claimed): in any collection, the second of two authenticated     *)
(* DELETEs of the same title is answered without an error and leaves the   *)
(* collection as the first left it.                                        *)
(***************************************************************************)
C7_DeleteTwiceAlways ==
    [][(/\ last.op = "deleteMovie" /\ last.status # 401
        /\ last'.op = "deleteMovie" /\ Verified(last'.tok, now')
        /\ last'.title = last.title)
          => (last'.status < 400 /\ movies' = movies)]_vars

(***************************************************************************)
(* C7 (amended): an authenticated DELETE of a title no stored movie has    *)
(* (so the second of two DELETEs when at most one movie had the title) is  *)
(* answered 200 with deletedCount 0 and leaves the collection unchanged.   *)
(***************************************************************************)
C7_DeleteAbsentIsNoOp ==
    [][(/\ last'.op = "deleteMovie" /\ Verified(last'.tok, now')
        /\ ~Stored(movies, Val(last'.title)))
          => /\ last'.status = 200
             /\ Val(last'.out).deletedCount = 0
             /\ movies' = movies]_vars

\* The same title was deleted twice: the second call found nothing and the
\* other movie is still stored.
C7_Witness ==
    /\ prev.op = "deleteMovie" /\ prev.status = 200 /\ Val(prev.out).deletedCount = 1
    /\ last.op = "deleteMovie" /\ last.status = 200 /\ Val(last.out).deletedCount = 0
    /\ last.title = prev.title
    /\ movies # <<>>

(***************************************************************************)
(* C8: a signup without a username or a password is answered 400 and       *)
(* creates nothing; the first signup with a username is answered 201 and   *)
(* appends that user; a later one is answered 409 and changes nothing.     *)
(* No two users share a username and no step removes or alters a user.     *)
(***************************************************************************)
Missing(o) == ~Has(o) \/ Val(o) = ""

Taken(us, username) == \E i \in 1..Len(us) : us[i].username = username

C8_SignupOncePerUsername ==
    [][/\ last'.op = "signup" =>
            LET b == Val(last'.body)
            IN IF Missing(b.username) \/ Missing(b.password)
               THEN last'.status = 400 /\ users' = users
               ELSE IF Taken(users, Val(b.username))
               THEN last'.status = 409 /\ users' = users
               ELSE /\ last'.status = 201
                    /\ Len(users') = Len(users) + 1
                    /\ users'[Len(users')].username = Val(b.username)
                    /\ comparePassword(users'[Len(users')], Val(b.password))
       /\ Len(users') >= Len(users)
       /\ \A i \in 1..Len(users) : users'[i] = users[i]
       /\ \A i, j \in 1..Len(users') :
             users'[i].username = users'[j].username => i = j]_vars

\* A second signup for "a" with another password was refused; two users exist.
C8_Witness ==
    /\ last.op = "signup" /\ last.status = 409
    /\ Len(users) = 2
    /\ \E i \in 1..Len(users) :
          /\ users[i].username = Val(Val(last.body).username)
          /\ ~comparePassword(users[i], Val(Val(last.body).password))

(***************************************************************************)
(* C9: signin answers 200 with a token exactly when the username exists    *)
(* and the password matches, and 401 without a token otherwise; the token  *)
(* carries that user's id and username and expires one hour after it was   *)
(* issued; the middleware accepts an issued token up to 59 minutes after   *)
(* its issue and rejects it from 61 minutes on.                            *)
(***************************************************************************)
IssuedAt(tok) == tok.exp - 60

C9_TokenLifetime ==
    /\ last.op = "signin" =>
          LET b == Val(last.body)
          IN IF \E i \in 1..Len(users) :
                    users[i].username = Val(b.username)
                      /\ users[i].password = Hash(Val(b.password))
             THEN /\ last.status = 200
                  /\ Has(last.out)
                  /\ users[Val(last.out).id].username = Val(b.username)
                  /\ Val(last.out).username = Val(b.username)
                  /\ Val(last.out).exp = now + 60
             ELSE last.status = 401 /\ last.out = None
    /\ \A tok \in issued :
          /\ tok.id \in 1..Len(users)
          /\ users[tok.id].username = tok.username
    /\ (last.op = "getMovies" /\ Has(last.tok) /\ Val(last.tok) \in issued) =>
          /\ now <= IssuedAt(Val(last.tok)) + 59 => last.status = 200
          /\ now >= IssuedAt(Val(last.tok)) + 61 => last.status = 401

\* A token issued at minute 0 was rejected at minute 61.
C9_Witness ==
    /\ last.op = "getMovies" /\ Has(last.tok) /\ Val(last.tok) \in issued
    /\ now = IssuedAt(Val(last.tok)) + 61
    /\ last.status = 401

(***************************************************************************)
(* C10: a PUT answered 200 changes the first stored movie with the title,  *)
(* on the supplied fields only, and nothing else; a PUT never adds a       *)
(* movie, and one that passes authentication and validation for a title    *)
(* no movie has is answered 404; a DELETE removes at most one movie, one   *)
(* with the title; a GET and any request answered 400, 401 or 404 leave    *)
(* the collection unchanged.                                               *)
(***************************************************************************)
C10_OneRecordPerWrite ==
    [][/\ (last'.op = "putMovie" /\ last'.status = 200) =>
            \E i \in 1..Len(movies) :
               /\ movies[i].title = last'.title
               /\ \A j \in 1..(i - 1) : movies[j].title # last'.title
               /\ Len(movies') = Len(movies)
               /\ \A j \in 1..Len(movies) : j # i => movies'[j] = movies[j]
               /\ EqualOnSupplied(movies'[i], Val(last'.body))
               /\ EqualOnUnsupplied(movies'[i], movies[i], Val(last'.body))
       /\ last'.op = "putMovie" =>
            /\ Len(movies') = Len(movies)
            /\ (~Stored(movies, Val(last'.title)) /\ last'.status \notin {400, 401})
                  => last'.status = 404
       /\ last'.op = "deleteMovie" =>
            \/ movies' = movies
            \/ \E i \in 1..Len(movies) :
                  movies[i].title = last'.title /\ movies' = Without(movies, i)
       /\ (last'.op \in {"getMovies", "getMovie"} \/ last'.status \in {400, 401, 404})
            => movies' = movies]_vars

\* Of two stored movies with the same title the update reached the first only.
C10_Witness ==
    /\ last.op = "putMovie" /\ last.status = 200
    /\ Len(movies) = 2
    /\ movies[1].title = last.title /\ movies[2].title = last.title
    /\ Has(Val(last.body).genre) /\ ~Has(Val(last.body).releaseDate)
    /\ movies[1].genre = Val(last.body).genre
    /\ movies[2].genre # Val(last.body).genre
    /\ Has(movies[1].releaseDate)

====
